---- MODULE Spec2Model ----
(***************************************************************************)
(* plexcache selectors: which files go to the cache tier (promote) and     *)
(* which go back to the array tier (demote).                               *)
(*                                                                         *)
(* Paths and environment strings are sequences of one-character strings,   *)
(* so that startswith / replace / rstrip / split are computed character by *)
(* character as Python computes them.                                      *)
(***************************************************************************)
EXTENDS Integers, Sequences, FiniteSets, TLC

VARIABLES
    env,        \* the process environment (configuration knobs)
    fs,         \* the host filesystem: the paths that exist as files
    now,        \* the wall clock, seconds since the epoch
    backend,    \* "sqlite" (snapshot), "live" or "paths" (PathTranslator only)
    db,         \* snapshot backend: the media server's database
    plex,       \* live backend: what the media server's API answers
    ppc,        \* promotion selector: position in main()
    accounts,   \* promotion selector: account ids still to query
    results,    \* promotion selector: get_ondeck_items' results / paths
    pout,       \* promotion selector: the lines printed
    pexit,      \* promotion selector: exit code (NotRun before the end)
    dpc,        \* demotion selector: position in main()
    rows,       \* demotion selector: the rows / items scanned, in order
    dout,       \* demotion selector: the lines printed
    dexit,      \* demotion selector: exit code (NotRun before the end)
    tpc,        \* PathTranslator pipeline position
    tpath,      \* PathTranslator: the path as recorded by the media server
    tmapped,    \* PathTranslator: apply_path_map(tpath)
    tnorm,      \* PathTranslator: successive normalize_to_array_root results
    hist        \* the previous run of the selectors on this backend state

vars == <<env, fs, now, backend, db, plex, ppc, accounts, results, pout, pexit,
          dpc, rows, dout, dexit, tpc, tpath, tmapped, tnorm, hist>>

inputVars == <<env, fs, now, backend>>
promoteVars == <<ppc, accounts, results, pout, pexit>>
demoteVars == <<dpc, rows, dout, dexit>>
pathVars == <<tpc, tpath, tmapped, tnorm>>

(***************************************************************************)
(* Bounds of the model.                                                    *)
(***************************************************************************)
MaxSegs == 3        \* segments concatenated into an input path
MaxNormalize == 2   \* successive applications of normalize_to_array_root
MaxViews == 3       \* rows of metadata_item_views
MaxInProgress == 2  \* rows of metadata_item_settings with a nonzero offset
MaxOnDeck == 2      \* items the live server reports on deck
MaxRaces == 1       \* rows written once the first selector has started
MaxRacedRows == 2   \* rows of views and settings together once such a row landed
MaxAccounts == 22   \* accounts of a server with many accounts

(***************************************************************************)
(* Character-sequence literals.                                            *)
(***************************************************************************)
Slash == <<"/">>
MntUser == <<"/","m","n","t","/","u","s","e","r">>
MntUserSlash == MntUser \o Slash
MntUser0 == MntUser \o <<"0">>
MntCache == <<"/","m","n","t","/","c","a","c","h","e">>
Mnt == <<"/","m","n","t">>
Data == <<"/","d","a","t","a">>
Eq == <<"=">>
Comma == <<",">>

(***************************************************************************)
(* Python string primitives.                                               *)
(***************************************************************************)
StartsWith(s, pre) ==
    /\ Len(pre) <= Len(s)
    /\ SubSeq(s, 1, Len(pre)) = pre

\* str.find + 1: the first position where sub occurs in s, 0 when none.
Find(s, sub) ==
    LET hits == {i \in 1..(Len(s) - Len(sub) + 1) :
                    SubSeq(s, i, i + Len(sub) - 1) = sub}
    IN  IF hits = {} THEN 0 ELSE CHOOSE i \in hits : \A j \in hits : i <= j

\* s.replace(old, new, 1)
Replace1(s, old, new) ==
    LET i == Find(s, old)
    IN  IF i = 0 THEN s
        ELSE SubSeq(s, 1, i - 1) \o new \o SubSeq(s, i + Len(old), Len(s))

\* s.rstrip("/")
RECURSIVE RStripSlash(_)
RStripSlash(s) ==
    IF Len(s) > 0 /\ s[Len(s)] = "/"
    THEN RStripSlash(SubSeq(s, 1, Len(s) - 1))
    ELSE s

\* The characters str.strip() removes: the 29 that str.isspace() accepts.
\* A string is the sequence of its characters.  An ASCII character is
\* written as itself (U+000B and U+001C to U+001F included); a character
\* outside ASCII is written as its code point, "U+00A0", which is one
\* element of the sequence, since a module read under another encoding
\* than the one it was written in cannot hold the character itself.
Whitespace ==
    {" ", "\t", "\n", "\r", "\f", "", "", "", "", "",
     "U+0085", "U+00A0", "U+1680", "U+2000", "U+2001", "U+2002", "U+2003",
     "U+2004", "U+2005", "U+2006", "U+2007", "U+2008", "U+2009", "U+200A",
     "U+2028", "U+2029", "U+202F", "U+205F", "U+3000"}

\* s.lstrip()
RECURSIVE LStripBlank(_)
LStripBlank(s) ==
    IF Len(s) > 0 /\ s[1] \in Whitespace THEN LStripBlank(Tail(s)) ELSE s

\* s.rstrip()
RECURSIVE RStripBlank(_)
RStripBlank(s) ==
    IF Len(s) > 0 /\ s[Len(s)] \in Whitespace
    THEN RStripBlank(SubSeq(s, 1, Len(s) - 1))
    ELSE s

\* s.strip()
Strip(s) == RStripBlank(LStripBlank(s))

\* s.split(sep) for a one-character separator: "".split(",") is [""].
RECURSIVE Split(_, _)
Split(s, sep) ==
    LET i == Find(s, sep)
    IN  IF i = 0 THEN <<s>>
        ELSE <<SubSeq(s, 1, i - 1)>> \o Split(SubSeq(s, i + 1, Len(s)), sep)

(***************************************************************************)
(* PLEX_PATH_MAP parsing: the pairs the loop of apply_path_map acts on, in  *)
(* configured order.  A pair without "=" or an empty one is skipped, src   *)
(* and dst lose their trailing slashes.                                    *)
(***************************************************************************)
RECURSIVE ParsePairs(_)
ParsePairs(raw) ==
    IF raw = <<>> THEN <<>>
    ELSE LET pair == Strip(Head(raw))
             i == Find(pair, Eq)
         IN  IF pair = <<>> \/ i = 0
             THEN ParsePairs(Tail(raw))
             ELSE <<[src |-> RStripSlash(SubSeq(pair, 1, i - 1)),
                     dst |-> RStripSlash(SubSeq(pair, i + 1, Len(pair)))]>>
                  \o ParsePairs(Tail(raw))

PathMapPairs(maps) == ParsePairs(Split(maps, Comma))

RECURSIVE ApplyPairs(_, _)
ApplyPairs(path, pairs) ==
    IF pairs = <<>> THEN path
    ELSE LET src == Head(pairs).src
             dst == Head(pairs).dst
         IN  IF src # <<>> /\ StartsWith(path, src \o Slash)
             THEN Replace1(path, src, dst)
             ELSE ApplyPairs(path, Tail(pairs))

\* Mutant: the last matching pair decides.
RECURSIVE ApplyPairsLastWins(_, _)
ApplyPairsLastWins(path, pairs) ==
    IF pairs = <<>> THEN path
    ELSE LET src == pairs[Len(pairs)].src
             dst == pairs[Len(pairs)].dst
         IN  IF src # <<>> /\ StartsWith(path, src \o Slash)
             THEN Replace1(path, src, dst)
             ELSE ApplyPairsLastWins(path, SubSeq(pairs, 1, Len(pairs) - 1))

apply_path_map_last_wins(path, maps) == ApplyPairsLastWins(path, PathMapPairs(maps))

apply_path_map(path, maps) == ApplyPairs(path, PathMapPairs(maps))

\* Mutant: the array root is applied whenever "/mnt/user" is a prefix,
\* without requiring the following "/".
normalize_no_slash(p, array_root) ==
    IF StartsWith(p, MntUser)
    THEN Replace1(p, MntUser, RStripSlash(array_root))
    ELSE p

normalize_to_array_root(p, array_root) ==
    IF StartsWith(p, MntUserSlash)
    THEN Replace1(p, MntUser, RStripSlash(array_root))
    ELSE p

(***************************************************************************)
(* Time.  Timestamps are seconds since the epoch; NullTime is SQL NULL /    *)
(* Python None, which sorts below every timestamp.                         *)
(***************************************************************************)
Day == 24 * 60 * 60
GraceDays == 30
Now0 == 20000 * Day
NullTime == -1
NotRun == -1

(***************************************************************************)
(* Generic sequence helpers.                                               *)
(***************************************************************************)
Range(s) == {s[i] : i \in 1..Len(s)}

\* Every sequence that lists the elements of S once each.
Orderings(S) ==
    {s \in [1..Cardinality(S) -> S] :
        \A i, j \in 1..Cardinality(S) : i # j => s[i] # s[j]}

\* Python's "seen" loop: keep the first occurrence of each element.
RECURSIVE DedupFrom(_, _)
DedupFrom(s, seen) ==
    IF s = <<>> THEN <<>>
    ELSE IF Head(s) \in seen THEN DedupFrom(Tail(s), seen)
    ELSE <<Head(s)>> \o DedupFrom(Tail(s), seen \cup {Head(s)})

Dedup(s) == DedupFrom(s, {})

HasDuplicates(s) == \E i, j \in 1..Len(s) : i # j /\ s[i] = s[j]

Max(S) == CHOOSE x \in S : \A y \in S : y <= x
Min(S) == CHOOSE x \in S : \A y \in S : x <= y

(***************************************************************************)
(* The snapshot database.  media_items and media_parts are joined one to   *)
(* one, so a part row carries the metadata item it belongs to.             *)
(*   metadata_items          [id, metadata_type, guid, parent_id, index,   *)
(*                            library_section_id, added_at]                *)
(*   media_parts             [metadata_item_id, file]                      *)
(*   library_sections        [id, name, section_type]                      *)
(*   accounts                [id]                                          *)
(*   metadata_item_views     [account_id, guid, viewed_at]                 *)
(*   metadata_item_settings  [account_id, guid, view_offset,               *)
(*                            last_viewed_at]                              *)
(***************************************************************************)
Movie == 1
Episode == 4

PA == MntUser \o <<"/","a">>
PDataA == Data \o <<"/","a">>
PE23 == MntUser \o <<"/","e","2","3">>
PDataE23 == Data \o <<"/","e","2","3">>

Sections ==
    { [id |-> 1, name |-> "Movies", section_type |-> 1],
      [id |-> 2, name |-> "TV", section_type |-> 2] }

\* Two old movies recorded against one file, and a movie added two days ago.
MovieCatalogue ==
    [ metadata_items |->
        { [id |-> 1, metadata_type |-> Movie, guid |-> "g1", parent_id |-> 0,
           index |-> 1, library_section_id |-> 1, added_at |-> Now0 - 60 * Day],
          [id |-> 2, metadata_type |-> Movie, guid |-> "g2", parent_id |-> 0,
           index |-> 1, library_section_id |-> 1, added_at |-> Now0 - 60 * Day],
          [id |-> 3, metadata_type |-> Movie, guid |-> "g3", parent_id |-> 0,
           index |-> 1, library_section_id |-> 1, added_at |-> Now0 - 2 * Day] },
      media_parts |->
        { [metadata_item_id |-> 1, file |-> PA],
          [metadata_item_id |-> 2, file |-> PA],
          [metadata_item_id |-> 3, file |-> PDataA] } ]

\* One season: episode 1 in a file of its own, episodes 2 and 3 in one
\* multi-episode file.
ShowCatalogue ==
    [ metadata_items |->
        { [id |-> 11, metadata_type |-> Episode, guid |-> "e1", parent_id |-> 10,
           index |-> 1, library_section_id |-> 2, added_at |-> Now0 - 60 * Day],
          [id |-> 12, metadata_type |-> Episode, guid |-> "e2", parent_id |-> 10,
           index |-> 2, library_section_id |-> 2, added_at |-> Now0 - 60 * Day],
          [id |-> 13, metadata_type |-> Episode, guid |-> "e3", parent_id |-> 10,
           index |-> 3, library_section_id |-> 2, added_at |-> Now0 - 60 * Day] },
      media_parts |->
        { [metadata_item_id |-> 11, file |-> PDataE23],
          [metadata_item_id |-> 12, file |-> PE23],
          [metadata_item_id |-> 13, file |-> PE23] } ]

Catalogues == {MovieCatalogue, ShowCatalogue}

AccountIds == {1, 2}

EmptyDb ==
    [ metadata_items |-> {}, media_parts |-> {}, library_sections |-> {},
      accounts |-> {}, metadata_item_views |-> {},
      metadata_item_settings |-> {} ]

NewDb(cat) ==
    [ metadata_items |-> cat.metadata_items,
      media_parts |-> cat.media_parts,
      library_sections |-> Sections,
      accounts |-> AccountIds,
      metadata_item_views |-> {},
      metadata_item_settings |-> {} ]

\* When the media server records that an account completed an item:
\* account 1 watches now-ish, account 2 watched long ago.
ViewedAtOf(account) == IF account = 1 THEN Now0 - Day ELSE Now0 - 40 * Day

Guids(d) == {mi.guid : mi \in d.metadata_items}

\* A server with many accounts.  Account a completed movie 2 a days ago,
\* except the accounts of silent, which have no view record; every account
\* is part-way through movie 1, and the accounts of both are part-way through
\* movie 3 as well, which they touched last.
CrowdIds == 1..MaxAccounts

CrowdedDb(both, silent) ==
    [NewDb(MovieCatalogue) EXCEPT
        !.accounts = CrowdIds,
        !.metadata_item_views =
            {[account_id |-> a, guid |-> "g2", viewed_at |-> Now0 - a * Day] :
                a \in CrowdIds \ silent},
        !.metadata_item_settings =
            {[account_id |-> a, guid |-> "g1", view_offset |-> 500,
              last_viewed_at |-> Now0 - a * Day + Day \div 2] : a \in CrowdIds}
            \cup {[account_id |-> a, guid |-> "g3", view_offset |-> 500,
                    last_viewed_at |-> Now0 - Day \div 4] : a \in both}]

\* All accounts but at most one are part-way through two movies, and at
\* most account 1 has no view record.
CrowdedDbs ==
    {CrowdedDb(CrowdIds \ {s}, silent) :
        s \in 0..MaxAccounts, silent \in {{}, {1}}}

ItemOf(d, part) ==
    CHOOSE mi \in d.metadata_items : mi.id = part.metadata_item_id

LibraryNameOf(d, mi) ==
    (CHOOSE ls \in d.library_sections : ls.id = mi.library_section_id).name

SectionTypeOf(d, mi) ==
    (CHOOSE ls \in d.library_sections : ls.id = mi.library_section_id).section_type

\* FROM metadata_items JOIN library_sections JOIN media_items JOIN media_parts
\* WHERE mp.file IS NOT NULL
JoinedParts(d) ==
    {part \in d.media_parts :
        /\ \E mi \in d.metadata_items : mi.id = part.metadata_item_id
        /\ \E ls \in d.library_sections :
              ls.id = ItemOf(d, part).library_section_id}

\* FROM metadata_items JOIN media_items JOIN media_parts, as the sub-select
\* of lines 138-141 joins them: no library_sections row is asked for.
ItemParts(d) ==
    {part \in d.media_parts :
        \E mi \in d.metadata_items : mi.id = part.metadata_item_id}

ViewedBy(d, guid, account) ==
    \E v \in d.metadata_item_views :
        v.guid = guid /\ v.account_id = account /\ v.viewed_at # NullTime

(***************************************************************************)
(* selector_watched_back_sqlite.py: the move-back query.                   *)
(***************************************************************************)
\* mi2 LEFT JOIN metadata_item_settings ON guid WHERE COALESCE(view_offset, 0) > 0
InProgressForAny(d, guid) ==
    \E s \in d.metadata_item_settings : s.guid = guid /\ s.view_offset > 0

InProgressIds(d) ==
    {mi.id : mi \in {x \in d.metadata_items : InProgressForAny(d, x.guid)}}

\* Seasons where any account has watched at least one episode.
StartedSeasons(d) ==
    {w.parent_id : w \in {x \in d.metadata_items :
        /\ x.metadata_type = Episode
        /\ \E v \in d.metadata_item_views :
              v.guid = x.guid /\ v.viewed_at # NullTime}}

\* Episodes of a started season that some account, having watched a sibling
\* episode of that season, has not watched.
UnwatchedInStartedSeason(d) ==
    {u \in d.metadata_items :
        /\ u.metadata_type = Episode
        /\ u.parent_id \in StartedSeasons(d)
        /\ \E sib \in d.metadata_items, sv \in d.metadata_item_views :
              /\ sv.guid = sib.guid
              /\ sib.parent_id = u.parent_id
              /\ sib.metadata_type = Episode
              /\ sv.viewed_at # NullTime
              /\ ~ViewedBy(d, u.guid, sv.account_id)}

NextUnwatchedIds(d) == {u.id : u \in UnwatchedInStartedSeason(d)}

\* Files that back an episode in Continue Watching: in progress for any
\* account, or unwatched in a started season.
ContinueWatchingFiles(d) ==
    {part.file : part \in {p \in ItemParts(d) :
        LET mi == ItemOf(d, p)
        IN  /\ mi.metadata_type = Episode
            /\ \/ InProgressForAny(d, mi.guid)
               \/ mi.id \in NextUnwatchedIds(d)}}

\* Movies added within the last 30 days.
NewlyAddedMovie(mi, clock) ==
    /\ mi.metadata_type = Movie
    /\ mi.added_at > clock - GraceDays * Day

\* A watched-only selection: the same rows, kept only for items some account
\* has a view record of.
WatchedQueryViewedOnly(d, clock) ==
    {[metadata_id |-> ItemOf(d, part).id,
      library_name |-> LibraryNameOf(d, ItemOf(d, part)),
      file_path |-> part.file] :
        part \in {p \in JoinedParts(d) :
            LET mi == ItemOf(d, p)
            IN  /\ mi.metadata_type \in {Movie, Episode}
                /\ mi.id \notin InProgressIds(d)
                /\ mi.id \notin NextUnwatchedIds(d)
                /\ p.file \notin ContinueWatchingFiles(d)
                /\ ~NewlyAddedMovie(mi, clock)
                /\ \E v \in d.metadata_item_views : v.guid = mi.guid}}

\* The rows of the SELECT DISTINCT, as a set.
WatchedQuery(d, clock) ==
    {[metadata_id |-> ItemOf(d, part).id,
      library_name |-> LibraryNameOf(d, ItemOf(d, part)),
      file_path |-> part.file] :
        part \in {p \in JoinedParts(d) :
            LET mi == ItemOf(d, p)
            IN  /\ mi.metadata_type \in {Movie, Episode}
                /\ mi.id \notin InProgressIds(d)
                /\ mi.id \notin NextUnwatchedIds(d)
                /\ p.file \notin ContinueWatchingFiles(d)
                /\ ~NewlyAddedMovie(mi, clock)}}

\* include_libs / only_libs: both allow-lists must pass when non-empty.
PassesLibraryFilters(name, include_libs, only_libs) ==
    /\ include_libs # {} => name \in include_libs
    /\ only_libs # {} => name \in only_libs

NoPath == <<>>

\* get_watched_items, lines 203-214: the cache-tier path of a host path.
CachePathSqlite(host_path, array_root, cache_root) ==
    LET cache_root_clean == RStripSlash(cache_root)
        array_root_clean == RStripSlash(array_root)
    IN  IF StartsWith(host_path, array_root_clean \o Slash)
        THEN Replace1(host_path, array_root_clean, cache_root_clean)
        ELSE IF StartsWith(host_path, MntUserSlash)
        THEN Replace1(host_path, MntUser, cache_root_clean)
        ELSE IF StartsWith(host_path, cache_root_clean \o Slash)
        THEN host_path
        ELSE NoPath

\* The loop over cursor.fetchall(): the cache paths appended to results.
RECURSIVE WatchedResults(_, _, _)
WatchedResults(fetched, e, files) ==
    IF fetched = <<>> THEN <<>>
    ELSE LET row == Head(fetched)
             host_path == apply_path_map(row.file_path, e.PLEX_PATH_MAP)
             cache_path == CachePathSqlite(host_path,
                               RStripSlash(e.PLEXCACHE_ARRAY_ROOT),
                               RStripSlash(e.PLEXCACHE_CACHE_ROOT))
             rest == WatchedResults(Tail(fetched), e, files)
         IN  IF /\ PassesLibraryFilters(row.library_name, e.PLEX_LIBRARIES,
                                        e.PLEXCACHE_LIBRARIES_ONLY)
                /\ cache_path # NoPath
                /\ cache_path \in files
             THEN <<cache_path>> \o rest
             ELSE rest

\* get_playing_files: the snapshot has no session table.
get_playing_files == {}

\* main, lines 270-278: de-duplicate, drop playing files, print.
RECURSIVE PrintWatched(_, _, _, _)
PrintWatched(items, seen, skip_if_playing, playing) ==
    IF items = <<>> THEN <<>>
    ELSE IF Head(items) \in seen
         THEN PrintWatched(Tail(items), seen, skip_if_playing, playing)
    ELSE IF skip_if_playing /\ Head(items) \in playing
         THEN PrintWatched(Tail(items), seen, skip_if_playing, playing)
    ELSE <<Head(items)>>
         \o PrintWatched(Tail(items), seen \cup {Head(items)},
                         skip_if_playing, playing)

(***************************************************************************)
(* selector_sqlite.py: get_ondeck_items.                                   *)
(***************************************************************************)
StopFactor == 20

NullView == [account_id |-> 0, guid |-> "", viewed_at |-> NullTime]
NullSetting ==
    [account_id |-> 0, guid |-> "", view_offset |-> 0, last_viewed_at |-> NullTime]

\* LEFT JOIN: the matching rows, or one all-NULL row when there is none.
LeftJoin(matching, nullRow) == IF matching = {} THEN {nullRow} ELSE matching

ViewsOf(d, guid, account) ==
    {v \in d.metadata_item_views : v.guid = guid /\ v.account_id = account}

SettingsOf(d, guid, account) ==
    {s \in d.metadata_item_settings : s.guid = guid /\ s.account_id = account}

Coalesce2(a, b) == IF a # NullTime THEN a ELSE b

\* accounts LEFT JOIN metadata_item_views, MAX(viewed_at) per account
LastView(d, account) ==
    LET times == {v.viewed_at : v \in {x \in d.metadata_item_views :
                                          x.account_id = account}}
    IN  IF times = {} THEN NullTime ELSE Max(times)

\* Only the most recently active account is queried.
AccountOrdersMostRecentOnly(d) ==
    LET ids == {a \in d.accounts : a > 0}
    IN  IF ids = {} THEN {<<1>>}
        ELSE {<<a>> : a \in {x \in ids :
                \A y \in ids : LastView(d, x) >= LastView(d, y)}}

\* WHERE a.id > 0 ... ORDER BY last_view DESC NULLS LAST: the orders the
\* query may return (ties in any order); [1] when there is no account.
RECURSIVE RankedOrders(_, _)
RankedOrders(d, ids) ==
    IF ids = {} THEN {<<>>}
    ELSE LET top == {x \in ids : \A y \in ids : LastView(d, x) >= LastView(d, y)}
         IN  {h \o t : h \in Orderings(top), t \in RankedOrders(d, ids \ top)}

AccountOrders(d) ==
    LET ids == {a \in d.accounts : a > 0}
    IN  IF ids = {} THEN {<<1>>} ELSE RankedOrders(d, ids)

\* MAX(COALESCE(mis2.last_viewed_at, miv2.viewed_at)) over the season
SeasonSortTime(d, parent_id, account) ==
    LET times ==
            {Coalesce2(s.last_viewed_at, v.viewed_at) :
                <<s, v>> \in UNION
                    {LeftJoin(SettingsOf(d, mi2.guid, account), NullSetting)
                        \X LeftJoin(ViewsOf(d, mi2.guid, account), NullView) :
                     mi2 \in {x \in d.metadata_items : x.parent_id = parent_id}}}
            \ {NullTime}
    IN  IF times = {} THEN NullTime ELSE Max(times)

\* The season has an episode this account has watched.
SeasonStartedBy(d, parent_id, account) ==
    \E mi2 \in d.metadata_items :
        /\ mi2.metadata_type = Episode
        /\ mi2.parent_id = parent_id
        /\ ViewedBy(d, mi2.guid, account)

\* Mutant: the last unwatched episode of the season instead of the first.
MaxUnwatchedIndex(d, parent_id, account) ==
    LET idx == {mi3.index : mi3 \in {x \in d.metadata_items :
                    /\ x.parent_id = parent_id
                    /\ x.metadata_type = Episode
                    /\ \E miv3 \in LeftJoin(ViewsOf(d, x.guid, account),
                                              NullView) :
                          miv3.viewed_at = NullTime}}
    IN  IF idx = {} THEN NullTime ELSE Max(idx)

\* MIN(index) over the rows of mi3 LEFT JOIN miv3 whose viewed_at is NULL:
\* the season's episodes with no view row of this account, or with one whose
\* viewed_at is NULL.
MinUnwatchedIndex(d, parent_id, account) ==
    LET idx == {mi3.index : mi3 \in {x \in d.metadata_items :
                    /\ x.parent_id = parent_id
                    /\ x.metadata_type = Episode
                    /\ \E miv3 \in LeftJoin(ViewsOf(d, x.guid, account),
                                              NullView) :
                          miv3.viewed_at = NullTime}}
    IN  IF idx = {} THEN NullTime ELSE Min(idx)

\* The rows of the join that pass the WHERE clause, before GROUP BY.
OnDeckJoin(d, account) ==
    UNION {
        LET mi == ItemOf(d, part)
        IN  {[file_path |-> part.file,
              metadata_id |-> mi.id,
              library_name |-> LibraryNameOf(d, mi),
              sort_time |->
                  IF mi.metadata_type = Episode
                  THEN SeasonSortTime(d, mi.parent_id, account)
                  ELSE Coalesce2(mis.last_viewed_at,
                                 Coalesce2(miv.viewed_at, mi.added_at))] :
                <<miv, mis>> \in
                    {<<v, s>> \in
                        LeftJoin(ViewsOf(d, mi.guid, account), NullView)
                            \X LeftJoin(SettingsOf(d, mi.guid, account), NullSetting) :
                        /\ mi.metadata_type \in {Movie, Episode}
                        /\ SectionTypeOf(d, mi) \in {1, 2}
                        /\ \/ mi.metadata_type = Episode /\ s.view_offset > 0
                           \/ /\ mi.metadata_type = Episode
                              /\ v.viewed_at = NullTime
                              /\ SeasonStartedBy(d, mi.parent_id, account)
                              /\ mi.index = MinUnwatchedIndex(d, mi.parent_id, account)
                           \/ mi.metadata_type = Movie /\ s.view_offset > 0}}
        : part \in JoinedParts(d)}

\* The query without its LIMIT clause.
NoLimit(s, n) == s

\* LIMIT n: a negative n is no limit.
Limit(s, n) == IF n < 0 \/ n >= Len(s) THEN s ELSE SubSeq(s, 1, n)

\* GROUP BY mp.file ORDER BY sort_time DESC LIMIT max_per_user: one row per
\* file, taken from any row of the file's group; equal sort times in any
\* order.
OnDeckQuery(d, account, max_per_user) ==
    LET joined == OnDeckJoin(d, account)
        files == {r.file_path : r \in joined}
        picks == {g \in [files -> joined] : \A f \in files : g[f].file_path = f}
    IN  {Limit(o, max_per_user) :
            o \in UNION {
                {s \in Orderings({g[f] : f \in files}) :
                    \A i, j \in 1..Len(s) :
                        i < j => s[i].sort_time >= s[j].sort_time}
                : g \in picks}}

\* Lines 200-216: library filters, then (file_path, metadata_id) appended.
RECURSIVE OnDeckAppend(_, _)
OnDeckAppend(fetched, e) ==
    IF fetched = <<>> THEN <<>>
    ELSE LET row == Head(fetched)
             rest == OnDeckAppend(Tail(fetched), e)
         IN  IF PassesLibraryFilters(row.library_name, e.PLEX_LIBRARIES,
                                     e.PLEXCACHE_LIBRARIES_ONLY)
             THEN <<[file_path |-> row.file_path,
                     metadata_id |-> row.metadata_id]>> \o rest
             ELSE rest

\* selector_sqlite.py main, lines 269-288: drop an entry whose path or
\* metadata id was seen, translate the path, stop at max_items.
RECURSIVE FinalPathsSqlite(_, _, _, _, _)
FinalPathsSqlite(items, seen_paths, seen_ids, final_paths, e) ==
    IF items = <<>> THEN final_paths
    ELSE LET it == Head(items)
         IN  IF it.file_path \in seen_paths \/ it.metadata_id \in seen_ids
             THEN FinalPathsSqlite(Tail(items), seen_paths, seen_ids,
                                   final_paths, e)
             ELSE LET mapped == apply_path_map(it.file_path, e.PLEX_PATH_MAP)
                      normalized == normalize_to_array_root(mapped,
                                        e.PLEXCACHE_ARRAY_ROOT)
                      grown == Append(final_paths, normalized)
                  IN  IF Len(grown) >= e.PLEXCACHE_MAX_ITEMS
                      THEN grown
                      ELSE FinalPathsSqlite(Tail(items),
                               seen_paths \cup {it.file_path},
                               seen_ids \cup {it.metadata_id}, grown, e)

ScenarioPath ==
    Data \o <<"/","m","o","v","i","e","s","/","Y",".","m","k","v">>
ScenarioOut ==
    MntUser0 \o <<"/","m","o","v","i","e","s","/","Y",".","m","k","v">>
ScenarioMap == Data \o Eq \o MntUser

(***************************************************************************)
(* Configuration.  The knobs hold the values env_bool / env_int / env_list  *)
(* hand to main().                                                         *)
(***************************************************************************)
\* The defaults of selector_sqlite.py and selector_watched_back_sqlite.py.
DefaultEnv ==
    [ PLEX_PATH_MAP |-> <<>>,
      PLEXCACHE_ARRAY_ROOT |-> MntUser0,
      PLEXCACHE_CACHE_ROOT |-> MntCache,
      PLEXCACHE_ONDECK |-> TRUE,
      PLEXCACHE_ONDECK_COUNT |-> 10,
      PLEXCACHE_WATCHLIST |-> FALSE,
      PLEXCACHE_WATCHLIST_COUNT |-> 20,
      PLEXCACHE_MAX_ITEMS |-> 100,
      PLEX_LIBRARIES |-> {},
      PLEXCACHE_LIBRARIES_ONLY |-> {},
      PLEXCACHE_SKIP_IF_PLAYING |-> TRUE,
      PLEXCACHE_MOVE_BACK_MIN_AGE_DAYS |-> 0,
      HAS_CREDENTIALS |-> TRUE,
      \* what goes wrong in this run of the promotion / demotion selector
      pfault |-> "none",
      dfault |-> "none" ]

\* The defaults of selector.py (lines 77-81) and selector_watched_back.py.
LiveDefaultEnv ==
    [DefaultEnv EXCEPT !.PLEXCACHE_ONDECK_COUNT = 30,
                       !.PLEXCACHE_MAX_ITEMS = 500]

CacheA == MntCache \o <<"/","a">>
CacheE23 == MntCache \o <<"/","e","2","3">>
AllOnCache == {CacheA, CacheE23}

\* The configurations explored: the default and single-knob departures.
EnvProfilesOf(base) ==
    { base,
      [base EXCEPT !.PLEX_PATH_MAP = ScenarioMap],
      [base EXCEPT !.PLEXCACHE_MOVE_BACK_MIN_AGE_DAYS = 7],
      [base EXCEPT !.PLEXCACHE_MAX_ITEMS = 0],
      [base EXCEPT !.PLEXCACHE_MAX_ITEMS = 1,
                         !.PLEX_PATH_MAP = ScenarioMap],
      [base EXCEPT !.PLEXCACHE_ONDECK_COUNT = 1],
      [base EXCEPT !.PLEXCACHE_ONDECK_COUNT = 0],
      [base EXCEPT !.PLEXCACHE_ONDECK = FALSE],
      [base EXCEPT !.PLEX_LIBRARIES = {"Movies"}],
      [base EXCEPT !.PLEXCACHE_LIBRARIES_ONLY = {"TV"}] }

EnvProfiles == EnvProfilesOf(DefaultEnv)

SqlitePromoteFaults == {"db_missing", "connect", "listing", "query1", "query2"}
SqliteDemoteFaults == {"db_missing", "connect", "query"}

SqliteEnvs ==
    EnvProfiles
    \cup {[DefaultEnv EXCEPT !.pfault = f] : f \in SqlitePromoteFaults}
    \cup {[DefaultEnv EXCEPT !.dfault = f] : f \in SqliteDemoteFaults}

\* The configurations a server with many accounts is run under: the loop's
\* limit, 20 times the per-account count, is 200, 20 and 40.
CrowdedEnvs ==
    { DefaultEnv,
      [DefaultEnv EXCEPT !.PLEXCACHE_ONDECK_COUNT = 1],
      [DefaultEnv EXCEPT !.PLEXCACHE_ONDECK_COUNT = 2] }

(***************************************************************************)
(* The media server writes its database whenever an account watches: the  *)
(* selectors take no lock, so a row may land before a run, between two     *)
(* queries of a run, and between two runs.  A row that lands after a query *)
(* is seen by the next query and by no earlier one, whenever in between it *)
(* landed: a write is taken just before the query that first sees it.      *)
(* MaxRaces bounds the rows that land once the first selector has started, *)
(* and MaxRacedRows the rows of the database such a row lands in.          *)
(***************************************************************************)
Idle == ppc = "idle" /\ dpc = "idle"

\* Rows the media server has written so far.
Written(d) ==
    Cardinality(d.metadata_item_views) + Cardinality(d.metadata_item_settings)

\* The next step of a selector is a query of the database.
QueryNext ==
    \/ ppc = "idle"
    \/ ppc = "accounts" /\ accounts # <<>>
    \/ ppc = "done" /\ dpc = "idle"

WriteAllowed ==
    /\ backend = "sqlite"
    /\ QueryNext
    /\ \/ Idle /\ hist.run = 1
       \/ hist.races < MaxRaces /\ Written(db) < MaxRacedRows

\* hist after one more write of the media server.
Raced == IF Idle /\ hist.run = 1 THEN hist ELSE [hist EXCEPT !.races = @ + 1]

\* An account completes an item: a metadata_item_views row.
RecordView(account, guid) ==
    /\ WriteAllowed
    /\ Cardinality(db.metadata_item_views) < MaxViews
    /\ ViewsOf(db, guid, account) = {}
    /\ \A mi \in db.metadata_items :
          mi.guid = guid => mi.added_at <= ViewedAtOf(account)
    /\ db' = [db EXCEPT !.metadata_item_views = @ \cup
                {[account_id |-> account, guid |-> guid,
                  viewed_at |-> ViewedAtOf(account)]}]
    /\ hist' = Raced
    /\ UNCHANGED <<inputVars, plex, promoteVars, demoteVars, pathVars>>

\* An account stops part-way through an item: a metadata_item_settings row
\* with a nonzero view_offset.
RecordProgress(account, guid) ==
    /\ WriteAllowed
    /\ Cardinality(db.metadata_item_settings) < MaxInProgress
    /\ SettingsOf(db, guid, account) = {}
    /\ \A mi \in db.metadata_items :
          mi.guid = guid => mi.added_at <= ViewedAtOf(account)
    /\ db' = [db EXCEPT !.metadata_item_settings = @ \cup
                {[account_id |-> account, guid |-> guid, view_offset |-> 500,
                  last_viewed_at |-> ViewedAtOf(account) + Day \div 2]}]
    /\ hist' = Raced
    /\ UNCHANGED <<inputVars, plex, promoteVars, demoteVars, pathVars>>

\* Elements common to s and t come in the same order in both: rows that a
\* query leaves unordered come back from an unchanged file as before.
SameRelativeOrder(s, t) ==
    \A i, j \in 1..Len(s) : \A k, l \in 1..Len(t) :
        (i < j /\ s[i] = t[l] /\ s[j] = t[k] /\ s[i] # s[j]) => l < k

(***************************************************************************)
(* selector_sqlite.py                                                      *)
(***************************************************************************)
\* main up to the account loop of get_ondeck_items.
PromoteSqliteStart ==
    /\ backend = "sqlite"
    /\ ppc = "idle"
    /\ IF env.pfault = "db_missing"
       THEN \* os.path.exists(db_path) is false: sys.exit(2)
            /\ ppc' = "done" /\ pexit' = 2
            /\ hist' = [hist EXCEPT !.pdb = db, !.plast = db]
            /\ UNCHANGED <<accounts, results, pout>>
       ELSE IF ~env.PLEXCACHE_ONDECK
       THEN \* nothing is collected
            /\ ppc' = "print"
            /\ hist' = [hist EXCEPT !.pdb = db, !.plast = db]
            /\ UNCHANGED <<accounts, results, pout, pexit>>
       ELSE IF env.pfault = "connect"
       THEN \* sqlite3.connect raises before results is bound: the handler
            \* logs, then "return results" raises UnboundLocalError
            /\ ppc' = "done" /\ pexit' = 1
            /\ hist' = [hist EXCEPT !.pdb = db, !.plast = db]
            /\ UNCHANGED <<accounts, results, pout>>
       ELSE IF env.pfault = "listing"
       THEN \* the item count or the account query raises: results = []
            /\ ppc' = "print"
            /\ hist' = [hist EXCEPT !.pdb = db, !.plast = db]
            /\ UNCHANGED <<accounts, results, pout, pexit>>
       ELSE \* an unchanged database file returns tied accounts in the
            \* order it returned them before
            /\ accounts' \in AccountOrders(db)
            /\ (hist.run = 2 /\ db = hist.pdb1) => accounts' = hist.order
            /\ hist' = [hist EXCEPT !.pdb = db, !.plast = db,
                                    !.queried = 0,
                                    !.order = IF hist.run = 1 THEN accounts'
                                              ELSE @]
            /\ ppc' = "accounts"
            /\ UNCHANGED <<results, pout, pexit>>
    /\ UNCHANGED <<inputVars, db, plex, demoteVars, pathVars>>

\* The account about to be queried is the k-th of this run.
QueryOrdinal == hist.queried + 1

\* What the first run fetched for this account from this very database.
Replayed(d, account) ==
    {f \in {hist.fetched[i] : i \in 1..Len(hist.fetched)} :
        f.db = d /\ f.account = account}

\* One iteration of "for account_id in account_ids".
PromoteSqliteAccount ==
    /\ ppc = "accounts"
    /\ IF accounts = <<>>
       THEN /\ ppc' = "print"
            /\ UNCHANGED <<accounts, results, hist>>
       ELSE IF Len(results) >= env.PLEXCACHE_ONDECK_COUNT * StopFactor
       THEN \* break
            /\ ppc' = "print"
            /\ UNCHANGED <<accounts, results, hist>>
       ELSE IF \/ env.pfault = "query1" /\ QueryOrdinal = 1
               \/ env.pfault = "query2" /\ QueryOrdinal = 2
       THEN \* cursor.execute raises: the except clause around the loop
            /\ ppc' = "caught"
            /\ hist' = [hist EXCEPT !.plast = db, !.queried = @ + 1]
            /\ UNCHANGED <<accounts, results>>
       ELSE \E fetched \in OnDeckQuery(db, Head(accounts),
                                       env.PLEXCACHE_ONDECK_COUNT) :
                \* an unchanged database file returns tied rows in the
                \* order it returned them before
                /\ hist.run = 2 =>
                      \A f \in Replayed(db, Head(accounts)) : fetched = f.rows
                /\ hist' = [hist EXCEPT
                      !.plast = db,
                      !.queried = @ + 1,
                      !.fetched = IF hist.run = 1
                                  THEN Append(@, [db |-> db,
                                                  account |-> Head(accounts),
                                                  rows |-> fetched])
                                  ELSE @]
                /\ results' = results \o OnDeckAppend(fetched, env)
                /\ accounts' = Tail(accounts)
                /\ ppc' = "accounts"
    /\ UNCHANGED <<inputVars, db, plex, pout, pexit, demoteVars, pathVars>>

\* except Exception: log; finally: close; return results.
PromoteSqliteCaught ==
    /\ ppc = "caught"
    /\ ppc' = "print"
    /\ UNCHANGED <<inputVars, db, plex, accounts, results, pout, pexit,
                   demoteVars, pathVars, hist>>

\* main, lines 269-292.
PromoteSqlitePrint ==
    /\ backend = "sqlite"
    /\ ppc = "print"
    /\ pout' = FinalPathsSqlite(results, {}, {}, <<>>, env)
    /\ pexit' = 0
    /\ ppc' = "done"
    /\ UNCHANGED <<inputVars, db, plex, accounts, results, demoteVars, pathVars, hist>>

(***************************************************************************)
(* selector_watched_back_sqlite.py                                         *)
(***************************************************************************)
\* main and get_watched_items up to cursor.fetchall().
DemoteSqliteQuery ==
    /\ backend = "sqlite"
    /\ ppc = "done"
    /\ dpc = "idle"
    /\ IF env.dfault = "db_missing"
       THEN /\ dpc' = "done" /\ dexit' = 2
            /\ UNCHANGED <<rows, dout>>
       ELSE IF env.dfault = "connect"
       THEN \* sqlite3.connect is outside the try: the exception ends the run
            /\ dpc' = "done" /\ dexit' = 1
            /\ UNCHANGED <<rows, dout>>
       ELSE IF env.dfault = "query"
       THEN \* the handler logs; results stays empty
            /\ rows' = <<>>
            /\ dpc' = "fetched"
            /\ UNCHANGED <<dout, dexit>>
       ELSE /\ rows' \in Orderings(WatchedQuery(db, now))
            /\ (hist.run = 2 /\ db = hist.ddb1) =>
                  SameRelativeOrder(rows', hist.rows)
            /\ dpc' = "fetched"
            /\ UNCHANGED <<dout, dexit>>
    /\ hist' = [hist EXCEPT !.ddb = db]
    /\ UNCHANGED <<inputVars, db, plex, promoteVars, pathVars>>

\* The loop over the rows, then main's de-duplication and print.
DemoteSqlitePrint ==
    /\ backend = "sqlite"
    /\ dpc = "fetched"
    /\ dout' = PrintWatched(WatchedResults(rows, env, fs), {},
                            env.PLEXCACHE_SKIP_IF_PLAYING,
                            IF env.PLEXCACHE_SKIP_IF_PLAYING
                            THEN get_playing_files ELSE {})
    /\ dexit' = 0
    /\ dpc' = "done"
    /\ UNCHANGED <<inputVars, db, plex, promoteVars, rows, pathVars, hist>>


(***************************************************************************)
(* The selectors against one backend.                                      *)
(***************************************************************************)
NoPlex == [sections |-> <<>>, ondeck |-> <<>>, watchlist |-> <<>>, playing |-> {}]

PathsOff == tpc = "off" /\ tpath = <<>> /\ tmapped = <<>> /\ tnorm = <<>>

\* Nothing has run yet; hist is filled when the selectors are run again.
\* races: rows written since the first selector started; pdb, plast, ddb:
\* the database as the first and the latest query of this promotion run and
\* the query of this demotion run read it; queried: account queries this
\* promotion run has made; pdb1, plast1, ddb1: the same of the first run.
FirstRun ==
    [run |-> 1, order |-> <<>>, fetched |-> <<>>, rows |-> <<>>,
     pout |-> <<>>, pexit |-> NotRun, dout |-> <<>>, dexit |-> NotRun,
     races |-> 0, queried |-> 0,
     pdb |-> EmptyDb, plast |-> EmptyDb, ddb |-> EmptyDb,
     pdb1 |-> EmptyDb, plast1 |-> EmptyDb, ddb1 |-> EmptyDb]

RunsIdle ==
    /\ ppc = "idle" /\ accounts = <<>> /\ results = <<>> /\ pout = <<>>
    /\ pexit = NotRun
    /\ dpc = "idle" /\ rows = <<>> /\ dout = <<>> /\ dexit = NotRun
    /\ hist = FirstRun

SqliteInit ==
    /\ backend = "sqlite"
    /\ \/ env \in SqliteEnvs /\ db \in {NewDb(cat) : cat \in Catalogues}
       \/ env \in CrowdedEnvs /\ db \in CrowdedDbs
    /\ fs = AllOnCache
    /\ now = Now0
    /\ plex = NoPlex
    /\ RunsIdle
    /\ PathsOff

(***************************************************************************)
(* The live backend: what plexapi returns.                                 *)
(*   item     [title, librarySectionTitle, viewCount, lastViewedAt,        *)
(*             addedAt, files]   (files: part.file of every media part)    *)
(*   section  [title, items]     (items: what lib.all() returns)           *)
(*   plex     [sections, ondeck, watchlist, playing]                       *)
(***************************************************************************)
CacheC == MntCache \o <<"/","c">>
OnLiveCache == {CacheA, CacheC}

\* Movie Y of Scenario 2 (added two days ago), a movie whose library path is
\* already on the cache tier, and a movie recorded under the container path.
LiveTitles == {"Y", "C", "D"}

LiveFiles(title) ==
    CASE title = "Y" -> <<PA>>
      [] title = "C" -> <<CacheC>>
      [] title = "D" -> <<PDataA>>
      [] OTHER -> <<>>

LiveAddedAt(title) == IF title = "Y" THEN Now0 - 2 * Day ELSE Now0 - 60 * Day

\* (viewCount, lastViewedAt): never watched, watched long ago, watched
\* yesterday.
WatchStates ==
    { [viewCount |-> 0, lastViewedAt |-> NullTime],
      [viewCount |-> 1, lastViewedAt |-> Now0 - 40 * Day],
      [viewCount |-> 1, lastViewedAt |-> Now0 - Day] }

LiveItem(title, w) ==
    [ title |-> title,
      librarySectionTitle |-> "Movies",
      viewCount |-> w.viewCount,
      lastViewedAt |-> w.lastViewedAt,
      addedAt |-> LiveAddedAt(title),
      files |-> LiveFiles(title) ]

\* A show of the TV section: lib.all() returns it, it has no media parts.
LiveShow ==
    [ title |-> "S", librarySectionTitle |-> "TV", viewCount |-> 1,
      lastViewedAt |-> Now0 - 40 * Day, addedAt |-> Now0 - 60 * Day,
      files |-> <<>> ]

\* A watchlist entry that no local library holds, and one that is local.
RemoteWatchlistItem ==
    [ title |-> "R", librarySectionTitle |-> "", viewCount |-> 0,
      lastViewedAt |-> NullTime, addedAt |-> NullTime, files |-> <<>> ]

\* A watchlist entry whose one media part has no file.
FilelessWatchlistItem ==
    [ title |-> "N", librarySectionTitle |-> "Movies", viewCount |-> 0,
      lastViewedAt |-> NullTime, addedAt |-> Now0 - 60 * Day,
      files |-> << <<>> >> ]

\* Sequences without repetition of at most n elements of S.
ShortLists(S, n) ==
    UNION {Orderings(T) : T \in {U \in SUBSET S : Cardinality(U) <= n}}

PlexStates ==
    { [ sections |->
          << [title |-> "TV", items |-> <<LiveShow>>],
             [title |-> "Movies",
              items |-> <<LiveItem("Y", w["Y"]), LiveItem("C", w["C"]),
                          LiveItem("D", w["D"])>>] >>,
        ondeck |-> [i \in 1..Len(deck) |-> LiveItem(deck[i], w[deck[i]])],
        watchlist |-> <<RemoteWatchlistItem, FilelessWatchlistItem,
                        LiveItem("D", w["D"])>>,
        playing |-> playing ] :
        w \in {x \in [LiveTitles -> WatchStates] :
                \A t \in LiveTitles :
                    x[t].viewCount > 0 => x[t].lastViewedAt >= LiveAddedAt(t)},
        deck \in ShortLists(LiveTitles, MaxOnDeck),
        playing \in {{}, {CacheC}, {PA}} }

LivePromoteFaults == {"no_credentials", "connect", "ondeck", "watchlist"}
LiveDemoteFaults ==
    {"no_credentials", "connect", "sessions", "sections", "section1", "section2"}

LiveEnvs ==
    EnvProfilesOf(LiveDefaultEnv)
    \cup {[LiveDefaultEnv EXCEPT !.PLEXCACHE_WATCHLIST = TRUE],
          [LiveDefaultEnv EXCEPT !.PLEXCACHE_WATCHLIST = TRUE,
                                 !.PLEXCACHE_WATCHLIST_COUNT = 1,
                                 !.PLEX_LIBRARIES = {"TV"}],
          [LiveDefaultEnv EXCEPT !.PLEXCACHE_WATCHLIST = TRUE,
                                 !.PLEX_LIBRARIES = {"TV"}],
          [LiveDefaultEnv EXCEPT !.PLEXCACHE_SKIP_IF_PLAYING = FALSE]}
    \cup {[LiveDefaultEnv EXCEPT !.pfault = f, !.PLEXCACHE_WATCHLIST = TRUE] :
            f \in LivePromoteFaults}
    \cup {[LiveDefaultEnv EXCEPT !.dfault = f] : f \in LiveDemoteFaults}

(***************************************************************************)
(* selector.py                                                             *)
(***************************************************************************)
\* filter_by_libraries
filter_by_libraries(item, include_names, only_names) ==
    PassesLibraryFilters(item.librarySectionTitle, include_names, only_names)

\* items[:count] when count > 0
FirstN(items, count) ==
    IF count > 0 /\ count < Len(items) THEN SubSeq(items, 1, count) ELSE items

\* "if part.file": a part whose file is empty adds nothing.
PartFiles(item) == SelectSeq(item.files, LAMBDA f : f # <<>>)

\* Lines 107-113: the part files of the items that pass the library filters.
RECURSIVE OnDeckPaths(_, _)
OnDeckPaths(items, e) ==
    IF items = <<>> THEN <<>>
    ELSE IF filter_by_libraries(Head(items), e.PLEX_LIBRARIES,
                                e.PLEXCACHE_LIBRARIES_ONLY)
         THEN PartFiles(Head(items)) \o OnDeckPaths(Tail(items), e)
         ELSE OnDeckPaths(Tail(items), e)

\* Lines 125-133: the library filter is evaluated and its answer not used.
RECURSIVE WatchlistPaths(_, _)
WatchlistPaths(items, e) ==
    IF items = <<>> THEN <<>>
    ELSE PartFiles(Head(items)) \o WatchlistPaths(Tail(items), e)

\* Lines 138-147: de-duplicate preserving order, stop at max_items.
RECURSIVE FinalLive(_, _, _, _)
FinalLive(paths, seen, final, max_items) ==
    IF paths = <<>> THEN final
    ELSE IF Head(paths) \in seen
         THEN FinalLive(Tail(paths), seen, final, max_items)
    ELSE LET grown == Append(final, Head(paths))
         IN  IF Len(grown) >= max_items THEN grown
             ELSE FinalLive(Tail(paths), seen \cup {Head(paths)}, grown,
                            max_items)

\* Lines 149-153: translate and print.
PrintLive(final, e) ==
    [i \in 1..Len(final) |->
        normalize_to_array_root(apply_path_map(final[i], e.PLEX_PATH_MAP),
                                e.PLEXCACHE_ARRAY_ROOT)]

PromoteLive ==
    /\ backend = "live"
    /\ ppc = "idle"
    /\ IF ~env.HAS_CREDENTIALS \/ env.pfault = "no_credentials"
       THEN /\ pexit' = 2
            /\ UNCHANGED <<results, pout>>
       ELSE IF env.pfault = "connect"
       THEN /\ pexit' = 3
            /\ UNCHANGED <<results, pout>>
       ELSE LET deck == IF env.PLEXCACHE_ONDECK /\ env.pfault # "ondeck"
                        THEN OnDeckPaths(FirstN(plex.ondeck,
                                             env.PLEXCACHE_ONDECK_COUNT), env)
                        ELSE <<>>
                wl == IF env.PLEXCACHE_WATCHLIST /\ env.pfault # "watchlist"
                      THEN WatchlistPaths(FirstN(plex.watchlist,
                                              env.PLEXCACHE_WATCHLIST_COUNT), env)
                      ELSE <<>>
            IN  /\ results' = deck \o wl
                /\ pout' = PrintLive(FinalLive(deck \o wl, {}, <<>>,
                                               env.PLEXCACHE_MAX_ITEMS), env)
                /\ pexit' = 0
    /\ ppc' = "done"
    /\ UNCHANGED <<inputVars, db, plex, accounts, demoteVars, pathVars, hist>>

(***************************************************************************)
(* selector_watched_back.py                                                *)
(***************************************************************************)
\* Lines 127-136: the first existing candidate under cache_root.
CachePathLive(host_path, array_root, cache_root, files) ==
    LET candidates ==
            (IF StartsWith(host_path, cache_root \o Slash)
             THEN <<host_path>> ELSE <<>>)
            \o (IF StartsWith(host_path, array_root \o Slash)
                THEN <<Replace1(host_path, array_root, cache_root)>> ELSE <<>>)
            \o (IF StartsWith(host_path, MntUserSlash)
                THEN <<Replace1(host_path, MntUser, cache_root)>> ELSE <<>>)
        good == {i \in 1..Len(candidates) :
                    /\ StartsWith(candidates[i], cache_root \o Slash)
                    /\ candidates[i] \in files}
    IN  IF good = {} THEN NoPath ELSE candidates[Min(good)]

\* Lines 115-138: the cache paths of one item's parts.
RECURSIVE PartCachePaths(_, _, _, _)
PartCachePaths(part_files, e, playing, files) ==
    IF part_files = <<>> THEN <<>>
    ELSE LET f == Head(part_files)
             rest == PartCachePaths(Tail(part_files), e, playing, files)
             cache_src == CachePathLive(apply_path_map(f, e.PLEX_PATH_MAP),
                              RStripSlash(e.PLEXCACHE_ARRAY_ROOT),
                              RStripSlash(e.PLEXCACHE_CACHE_ROOT), files)
         IN  IF f = <<>> THEN rest
             ELSE IF e.PLEXCACHE_SKIP_IF_PLAYING /\ f \in playing THEN rest
             ELSE IF cache_src # NoPath THEN <<cache_src>> \o rest
             ELSE rest

\* cutoff = now - min_age_days, when min_age_days > 0
Cutoff(e, clock) ==
    IF e.PLEXCACHE_MOVE_BACK_MIN_AGE_DAYS > 0
    THEN clock - e.PLEXCACHE_MOVE_BACK_MIN_AGE_DAYS * Day
    ELSE NullTime

\* Lines 98-138 for the items of one section.
RECURSIVE SectionOut(_, _, _, _, _)
SectionOut(items, e, clock, playing, files) ==
    IF items = <<>> THEN <<>>
    ELSE LET it == Head(items)
             rest == SectionOut(Tail(items), e, clock, playing, files)
         IN  IF it.viewCount < 1 THEN rest
             ELSE IF ~filter_by_libraries(it, e.PLEX_LIBRARIES,
                                          e.PLEXCACHE_LIBRARIES_ONLY) THEN rest
             ELSE IF /\ Cutoff(e, clock) # NullTime
                     /\ it.lastViewedAt # NullTime
                     /\ it.lastViewedAt > Cutoff(e, clock) THEN rest
             ELSE PartCachePaths(it.files, e, playing, files) \o rest

\* Lines 96-141: every section; a section whose listing raises is skipped.
RECURSIVE ScanSections(_, _, _, _, _, _)
ScanSections(sections, k, e, clock, playing, files) ==
    IF k > Len(sections) THEN <<>>
    ELSE (IF \/ e.dfault = "section1" /\ k = 1
             \/ e.dfault = "section2" /\ k = 2
          THEN <<>>
          ELSE SectionOut(sections[k].items, e, clock, playing, files))
         \o ScanSections(sections, k + 1, e, clock, playing, files)

DemoteLive ==
    /\ backend = "live"
    /\ ppc = "done"
    /\ dpc = "idle"
    /\ IF ~env.HAS_CREDENTIALS \/ env.dfault = "no_credentials"
       THEN /\ dexit' = 2
            /\ UNCHANGED <<rows, dout>>
       ELSE IF env.dfault = "connect"
       THEN /\ dexit' = 3
            /\ UNCHANGED <<rows, dout>>
       ELSE IF env.dfault = "sections"
       THEN \* plex.library.sections() is outside any try
            /\ dexit' = 1
            /\ UNCHANGED <<rows, dout>>
       ELSE LET playing == IF env.PLEXCACHE_SKIP_IF_PLAYING
                              /\ env.dfault # "sessions"
                           THEN plex.playing ELSE {}
                out == ScanSections(plex.sections, 1, env, now, playing, fs)
            IN  /\ rows' = out
                /\ dout' = Dedup(out)
                /\ dexit' = 0
    /\ dpc' = "done"
    /\ UNCHANGED <<inputVars, db, plex, promoteVars, pathVars, hist>>

LiveInit ==
    /\ backend = "live"
    /\ env \in LiveEnvs
    /\ fs = OnLiveCache
    /\ now = Now0
    /\ db = EmptyDb
    /\ plex \in PlexStates
    /\ RunsIdle
    /\ PathsOff

(***************************************************************************)
(* The scheduler runs both selectors again on the same snapshot or server  *)
(* state and the same configuration; only the clock has moved.             *)
(***************************************************************************)
RunInterval == 30 * Day

RunAgain ==
    /\ backend \in {"sqlite", "live"}
    /\ ppc = "done" /\ dpc = "done"
    /\ hist.run = 1
    /\ hist' = [run |-> 2,
                order |-> hist.order, fetched |-> hist.fetched, rows |-> rows,
                pout |-> pout, pexit |-> pexit, dout |-> dout, dexit |-> dexit,
                races |-> hist.races, queried |-> 0,
                pdb |-> EmptyDb, plast |-> EmptyDb, ddb |-> EmptyDb,
                pdb1 |-> hist.pdb, plast1 |-> hist.plast, ddb1 |-> hist.ddb]
    /\ now' = now + RunInterval
    /\ ppc' = "idle" /\ accounts' = <<>> /\ results' = <<>> /\ pout' = <<>>
    /\ pexit' = NotRun
    /\ dpc' = "idle" /\ rows' = <<>> /\ dout' = <<>> /\ dexit' = NotRun
    /\ UNCHANGED <<env, fs, backend, db, plex, pathVars>>

Init == SqliteInit \/ LiveInit

Next ==
    \/ \E a \in AccountIds, g \in Guids(db) : RecordView(a, g)
    \/ \E a \in AccountIds, g \in Guids(db) : RecordProgress(a, g)
    \/ PromoteSqliteStart
    \/ PromoteSqliteAccount
    \/ PromoteSqliteCaught
    \/ PromoteSqlitePrint
    \/ DemoteSqliteQuery
    \/ DemoteSqlitePrint
    \/ PromoteLive
    \/ DemoteLive
    \/ RunAgain

Spec == Init /\ [][Next]_vars

(***************************************************************************)
(* Inputs of the PathTranslator specification.                             *)
(***************************************************************************)
Segments ==
    { Mnt, <<"/","u","s","e","r">>, <<"/","u","s","e","r","0">>, Data, <<"/","a">> }

RECURSIVE SegPaths(_)
SegPaths(n) ==
    IF n = 0 THEN {<<>>}
    ELSE LET S == SegPaths(n - 1) IN S \cup {s \o g : s \in S, g \in Segments}

PathInputs == SegPaths(MaxSegs) \cup {ScenarioPath}

ArrayRoots ==
    { MntUser0, MntUser0 \o Slash, MntUser, MntUser \o <<"/","a">>, Mnt, Slash, <<>> }

PathMaps ==
    { <<>>,
      ScenarioMap,
      \* two pairs match /data/a/...: order decides
      Data \o <<"/","a">> \o Eq \o <<"/","a">> \o Comma \o Data \o Eq \o MntUser,
      Data \o Eq \o MntUser \o Comma \o Data \o <<"/","a">> \o Eq \o <<"/","a">>,
      \* blanks, a trailing slash, an entry without "=", an empty source
      <<" ">> \o Data \o Slash \o Eq \o MntUser \o Slash \o <<" ">> \o Comma
          \o Mnt \o Comma \o Eq \o <<"/","a">>,
      \* whitespace other than the blank around a pair
      <<"\t">> \o Data \o Eq \o MntUser \o <<"\n">>,
      <<"\r", "\f">> \o Data \o Eq \o MntUser \o <<"\t", " ">>,
      \* whitespace outside ASCII around a pair
      <<"U+3000">> \o Data \o Eq \o MntUser \o <<"U+00A0", "U+2003">>
          \o Comma \o <<"U+0085", "U+2028">> }

(***************************************************************************)
(* PathTranslator pipeline, as main() runs it on each surviving path:      *)
(* apply_path_map, then normalize_to_array_root; a further                 *)
(* normalize_to_array_root is a later run fed the printed path.            *)
(***************************************************************************)
MainOff ==
    /\ fs = {}
    /\ now = Now0
    /\ db = EmptyDb
    /\ plex = NoPlex
    /\ ppc = "off" /\ accounts = <<>> /\ results = <<>> /\ pout = <<>>
    /\ pexit = NotRun
    /\ dpc = "off" /\ rows = <<>> /\ dout = <<>> /\ dexit = NotRun
    /\ hist = FirstRun

TInit ==
    /\ backend = "paths"
    /\ env \in { [DefaultEnv EXCEPT !.PLEX_PATH_MAP = m,
                                    !.PLEXCACHE_ARRAY_ROOT = r] :
                    m \in PathMaps, r \in ArrayRoots }
    /\ MainOff
    /\ tpc = "start"
    /\ tpath \in PathInputs
    /\ tmapped = <<>>
    /\ tnorm = <<>>

TApplyPathMap ==
    /\ tpc = "start"
    /\ tmapped' = apply_path_map(tpath, env.PLEX_PATH_MAP)
    /\ tpc' = "mapped"
    /\ UNCHANGED <<inputVars, db, plex, promoteVars, demoteVars, tpath, tnorm,
                   hist>>

TNormalize ==
    /\ tpc = "mapped"
    /\ Len(tnorm) < MaxNormalize
    /\ tnorm' = Append(tnorm,
                       normalize_to_array_root(
                           IF tnorm = <<>> THEN tmapped ELSE tnorm[Len(tnorm)],
                           env.PLEXCACHE_ARRAY_ROOT))
    /\ UNCHANGED <<inputVars, db, plex, promoteVars, demoteVars,
                   tpc, tpath, tmapped, hist>>

TNext == TApplyPathMap \/ TNormalize

SpecPath == TInit /\ [][TNext]_vars

(***************************************************************************)
(* Cache-path derivation of the two demotion selectors, on one host path:  *)
(* selector_watched_back_sqlite.py lines 202-218 and                       *)
(* selector_watched_back.py lines 58-59 and 125-136.                       *)
(***************************************************************************)
HostPaths ==
    { MntUser0 \o <<"/","a">>, PA, CacheA, MntUser \o <<"/","u","s","e","r","0","/","a">>,
      PDataA, MntUser0 }

CacheArrayRoots == { MntUser0, MntUser0 \o Slash, MntUser, Mnt, <<>> }

CacheRoots == { MntCache, MntCache \o Slash }

CacheTierFiles ==
    { CacheA, MntCache \o <<"/","u","s","e","r","0","/","a">>,
      MntCache \o <<"/","c","a","c","h","e","/","a">>,
      MntCache \o <<"/","u","s","e","r","/","a">> }

CInit ==
    /\ backend = "cachepath"
    /\ env \in { [DefaultEnv EXCEPT !.PLEXCACHE_ARRAY_ROOT = a,
                                    !.PLEXCACHE_CACHE_ROOT = c] :
                    a \in CacheArrayRoots, c \in CacheRoots }
    /\ fs \in SUBSET CacheTierFiles
    /\ now = Now0
    /\ db = EmptyDb
    /\ plex = NoPlex
    /\ ppc = "off" /\ accounts = <<>> /\ results = <<>> /\ pout = <<>>
    /\ pexit = NotRun
    /\ dpc = "off" /\ rows = <<>> /\ dout = <<>> /\ dexit = NotRun
    /\ hist = FirstRun
    /\ tpc = "start"
    /\ tpath \in HostPaths
    /\ tmapped = <<>>
    /\ tnorm = <<>>

\* get_watched_items, lines 202-218: the path appended to results, if any.
CDeriveSqlite ==
    /\ backend = "cachepath"
    /\ tpc = "start"
    /\ LET cache_path == CachePathSqlite(tpath, env.PLEXCACHE_ARRAY_ROOT,
                                         env.PLEXCACHE_CACHE_ROOT)
       IN  tmapped' = IF cache_path # NoPath /\ cache_path \in fs
                      THEN cache_path ELSE NoPath
    /\ tpc' = "snapshot"
    /\ UNCHANGED <<inputVars, db, plex, promoteVars, demoteVars, tpath, tnorm,
                   hist>>

\* selector_watched_back.py, lines 58-59 and 125-136: cache_src, if any.
CDeriveLive ==
    /\ backend = "cachepath"
    /\ tpc = "snapshot"
    /\ tnorm' = <<CachePathLive(tpath, RStripSlash(env.PLEXCACHE_ARRAY_ROOT),
                                RStripSlash(env.PLEXCACHE_CACHE_ROOT), fs)>>
    /\ tpc' = "done"
    /\ UNCHANGED <<inputVars, db, plex, promoteVars, demoteVars, tpath, tmapped,
                   hist>>

CNext == CDeriveSqlite \/ CDeriveLive

SpecCache == CInit /\ [][CNext]_vars

(***************************************************************************)
(* Selector properties.  A file is its library path, as the database or    *)
(* the server records it.                                                  *)
(***************************************************************************)
DemoteRan == dpc = "done" /\ dexit = 0
PromoteRan == ppc = "done" /\ pexit = 0

\* The database as the query of the demotion run read it, and as the first
\* query of the promotion run read it.
DemoteDb == hist.ddb
PromoteDb == hist.pdb

\* Rows are only ever added: the latest query of the promotion run read the
\* database its first query read when no row landed between its queries.
PromoteReadOnce == hist.plast = hist.pdb

\* Both selectors of this run read one and the same database.
SameInputState == PromoteReadOnce /\ hist.ddb = hist.pdb

\* No row was written from the first query of the first run on.
SnapshotUnchanged == db = hist.pdb1

\* The line the snapshot demotion prints for a library path.
DemoteLineSqlite(file, e) ==
    CachePathSqlite(apply_path_map(file, e.PLEX_PATH_MAP),
                    RStripSlash(e.PLEXCACHE_ARRAY_ROOT),
                    RStripSlash(e.PLEXCACHE_CACHE_ROOT))

\* The line the live demotion prints for a library path.
DemoteLineLive(file, e, files) ==
    CachePathLive(apply_path_map(file, e.PLEX_PATH_MAP),
                  RStripSlash(e.PLEXCACHE_ARRAY_ROOT),
                  RStripSlash(e.PLEXCACHE_CACHE_ROOT), files)

\* Snapshot demotion: the library paths of the fetched rows whose cache-tier
\* path was printed.
DemotedFiles ==
    {rows[i].file_path : i \in {j \in 1..Len(rows) :
        /\ PassesLibraryFilters(rows[j].library_name, env.PLEX_LIBRARIES,
                                env.PLEXCACHE_LIBRARIES_ONLY)
        /\ DemoteLineSqlite(rows[j].file_path, env) \in Range(dout)}}

\* Live demotion: the library items one of whose files has its cache-tier
\* path printed.
LiveItems ==
    UNION {Range(plex.sections[k].items) : k \in 1..Len(plex.sections)}

LiveDemotedItems ==
    {it \in LiveItems :
        \E f \in Range(it.files) : DemoteLineLive(f, env, fs) \in Range(dout)}

\* The items of the snapshot that a file backs.
ItemsBackedBy(d, file) ==
    {ItemOf(d, p) : p \in {q \in JoinedParts(d) : q.file = file}}

\* The episode is unwatched by the account, which has watched another
\* episode of its season.
NextUnwatchedFor(d, ep, account) ==
    /\ ep.metadata_type = Episode
    /\ ~ViewedBy(d, ep.guid, account)
    /\ \E sib \in d.metadata_items :
          /\ sib.metadata_type = Episode
          /\ sib.parent_id = ep.parent_id
          /\ sib.id # ep.id
          /\ ViewedBy(d, sib.guid, account)

\* The episode has been watched, nobody is part-way through it and it is
\* next-unwatched for nobody.
WatchedAndUnprotected(d, ep) ==
    /\ ep.metadata_type = Episode
    /\ \E a \in d.accounts : ViewedBy(d, ep.guid, a)
    /\ ~InProgressForAny(d, ep.guid)
    /\ \A a \in d.accounts : ~NextUnwatchedFor(d, ep, a)

\* C1 as stated: in the snapshot backend, a file that backs an item (movie
\* or episode) some account is part-way through is not demoted.
C1_InProgressFileNotDemoted ==
    (backend = "sqlite" /\ DemoteRan)
        => \A f \in DemotedFiles :
              \A mi \in ItemsBackedBy(DemoteDb, f) : ~InProgressForAny(DemoteDb, mi.guid)

\* C2 as stated: in the snapshot backend, a file that backs an episode
\* next-unwatched for some account and also backs a watched episode that is
\* unprotected on its own does not appear in the demote output: the line
\* the selector prints for the file, its cache-tier path, is not printed.
C2_MultiEpisodeFileKept ==
    (backend = "sqlite" /\ DemoteRan)
        => \A p1, p2 \in JoinedParts(DemoteDb) :
              ( /\ p1.file = p2.file
                /\ \E a \in DemoteDb.accounts : NextUnwatchedFor(DemoteDb, ItemOf(DemoteDb, p1), a)
                /\ WatchedAndUnprotected(DemoteDb, ItemOf(DemoteDb, p2)) )
              => DemoteLineSqlite(p1.file, env) \notin Range(dout)

\* C3 as stated: for one input state, no line printed by the promotion
\* selector is printed by the demotion selector, in either backend.
C3_PromoteDemoteDisjoint ==
    (PromoteRan /\ DemoteRan /\ SameInputState)
        => Range(pout) \cap Range(dout) = {}

\* The most recent view of any item a file of the snapshot backs.
LastViewOfFile(d, file) ==
    LET times == {v.viewed_at : v \in {x \in d.metadata_item_views :
                     \E mi \in ItemsBackedBy(d, file) : mi.guid = x.guid}}
    IN  IF times = {} THEN NullTime ELSE Max(times)

\* C4 as stated: in either backend, with a minimum age configured, no file
\* last viewed after now minus the minimum age is demoted.
C4_MinimumAgeGuard ==
    (DemoteRan /\ env.PLEXCACHE_MOVE_BACK_MIN_AGE_DAYS > 0)
        => LET limit == now - env.PLEXCACHE_MOVE_BACK_MIN_AGE_DAYS * Day
           IN  /\ backend = "sqlite"
                     => \A f \in DemotedFiles : LastViewOfFile(DemoteDb, f) <= limit
               /\ backend = "live"
                     => \A it \in LiveDemotedItems : it.lastViewedAt <= limit

\* C5 as stated: in either backend, a movie added within the 30 days before
\* the run is not demoted, whatever its watch state and the minimum age.
C5_GraceWindow ==
    DemoteRan
        => /\ backend = "sqlite"
                 => \A f \in DemotedFiles : \A mi \in ItemsBackedBy(DemoteDb, f) :
                       ~(mi.metadata_type = Movie
                         /\ mi.added_at > now - GraceDays * Day)
           /\ backend = "live"
                 => \A it \in LiveDemotedItems :
                       ~(it.librarySectionTitle = "Movies"
                         /\ it.addedAt > now - GraceDays * Day)

\* C6 as stated: no selector, in either backend, prints a line twice.
C6_NoRepeatedLine ==
    /\ PromoteRan => ~HasDuplicates(pout)
    /\ DemoteRan => ~HasDuplicates(dout)

\* C7 as stated: the promotion selector prints at most PLEXCACHE_MAX_ITEMS
\* lines, in either backend.
C7_CapRespected ==
    PromoteRan => Len(pout) <= env.PLEXCACHE_MAX_ITEMS

(***************************************************************************)
(* PathTranslator properties.                                              *)
(***************************************************************************)
\* The pairs of the map whose source prefix, followed by "/", starts the path.
MapMatches(path, pairs) ==
    {i \in 1..Len(pairs) :
        pairs[i].src # <<>> /\ StartsWith(path, pairs[i].src \o Slash)}

\* The path with its leading Len(src) characters replaced by dst.
PrefixSwap(path, pair) ==
    pair.dst \o SubSeq(path, Len(pair.src) + 1, Len(path))

\* Array roots for which the normalised path is again under "/mnt/user/".
RootReenters(array_root) ==
    LET r == RStripSlash(array_root)
    IN  r = <<>> \/ r = Mnt \/ StartsWith(r, MntUserSlash)

\* C8 as stated: for every path and every array root, normalising the
\* normalised path changes nothing.
C8_IdempotentEveryRoot ==
    \A i \in 1..(Len(tnorm) - 1) : tnorm[i + 1] = tnorm[i]

\* C8 amended: normalize_to_array_root is idempotent for every path when the
\* array root, trailing slashes stripped, is neither empty nor "/mnt" and
\* does not begin with "/mnt/user/".
C8_IdempotentOutsideUserShare ==
    ~RootReenters(env.PLEXCACHE_ARRAY_ROOT)
        => \A i \in 1..(Len(tnorm) - 1) : tnorm[i + 1] = tnorm[i]

C8_Witness ==
    /\ Len(tnorm) >= 2
    /\ ~RootReenters(env.PLEXCACHE_ARRAY_ROOT)
    /\ StartsWith(tmapped, MntUserSlash)
    /\ tnorm[1] # tmapped
    /\ tnorm[2] = tnorm[1]

\* C9: the pairs of PLEX_PATH_MAP are tried in configured order; the first
\* pair whose source prefix followed by "/" starts the path decides the
\* result, which is the path with that leading prefix replaced by the host
\* prefix; with no such pair the path is unchanged; and with the map
\* "/data=/mnt/user" and array root /mnt/user0 the path /data/movies/Y.mkv
\* is printed as /mnt/user0/movies/Y.mkv.
C9_FirstMatchWins ==
    /\ tpc = "mapped" =>
          LET pairs == PathMapPairs(env.PLEX_PATH_MAP)
              M == MapMatches(tpath, pairs)
          IN  IF M = {} THEN tmapped = tpath
              ELSE LET k == CHOOSE i \in M : \A j \in M : i <= j
                   IN  tmapped = PrefixSwap(tpath, pairs[k])
    /\ ( /\ env.PLEX_PATH_MAP = ScenarioMap
         /\ env.PLEXCACHE_ARRAY_ROOT = MntUser0
         /\ tpath = ScenarioPath
         /\ Len(tnorm) >= 1 )
          => tnorm[1] = ScenarioOut

C9_Witness ==
    LET pairs == PathMapPairs(env.PLEX_PATH_MAP)
        M == MapMatches(tpath, pairs)
    IN  /\ tpc = "mapped"
        /\ \E i, j \in M :
              /\ i < j
              /\ PrefixSwap(tpath, pairs[i]) # PrefixSwap(tpath, pairs[j])
              /\ tmapped = PrefixSwap(tpath, pairs[i])

(***************************************************************************)
(* Scoped failures.                                                        *)
(***************************************************************************)
\* The line the promotion selectors print for a library path.
PromoteLine(file, e) ==
    normalize_to_array_root(apply_path_map(file, e.PLEX_PATH_MAP),
                            e.PLEXCACHE_ARRAY_ROOT)

\* C10 as stated: when the continue-watching query of one account fails
\* (snapshot promotion) or the listing of one library section fails (live
\* demotion), the run still ends normally and what every other account or
\* section contributes is printed.
C10_ScopedFailure ==
    /\ ( /\ backend = "sqlite"
         /\ ppc = "done"
         /\ env.pfault \in {"query1", "query2"}
         /\ accounts # <<>>
         /\ PromoteReadOnce )
          => /\ pexit = 0
             /\ \A a \in PromoteDb.accounts \ {Head(accounts)} :
                   \A r \in OnDeckJoin(PromoteDb, a) :
                       PromoteLine(r.file_path, env) \in Range(pout)
    /\ ( /\ backend = "live"
         /\ dpc = "done"
         /\ env.dfault \in {"section1", "section2"} )
          => /\ dexit = 0
             /\ \A k \in 1..Len(plex.sections) :
                   (k = 1) # (env.dfault = "section1")
                       => \A it \in Range(plex.sections[k].items) :
                             (it.viewCount >= 1 /\ it.title \in LiveTitles)
                                 => \A f \in Range(it.files) :
                                       (f \notin plex.playing
                                        /\ DemoteLineLive(f, env, fs) # NoPath)
                                           => DemoteLineLive(f, env, fs)
                                                  \in Range(dout)

(***************************************************************************)
(* Exit status.                                                            *)
(***************************************************************************)
\* C11 as stated: every run of a selector ends with status 0, 2 or 3, and a
\* run that ends with 2 has printed nothing.
C11_ExitCodes ==
    /\ ppc = "done" => (pexit \in {0, 2, 3} /\ (pexit = 2 => pout = <<>>))
    /\ dpc = "done" => (dexit \in {0, 2, 3} /\ (dexit = 2 => dout = <<>>))

(***************************************************************************)
(* Library filters on promotion.                                           *)
(***************************************************************************)
\* The library items the promotion selector was offered: the parts' items of
\* the snapshot, or the on-deck and watchlist items of the server, each as
\* [library, files].
PromoteCandidates ==
    IF backend = "sqlite"
    THEN {[library |-> LibraryNameOf(db, ItemOf(db, p)), files |-> {p.file}] :
             p \in JoinedParts(db)}
    ELSE {[library |-> it.librarySectionTitle, files |-> Range(it.files)] :
             it \in Range(plex.ondeck) \cup Range(plex.watchlist)}

\* C12 as stated: every promoted line is the path of a file of an item whose
\* library name is in the inclusion set, when that set is not empty, and in
\* the hard-restriction set, when that set is not empty.
C12_PromotedWithinLibraries ==
    PromoteRan
        => \A i \in 1..Len(pout) :
              \E c \in PromoteCandidates :
                  /\ \E f \in c.files : PromoteLine(f, env) = pout[i]
                  /\ env.PLEX_LIBRARIES # {} => c.library \in env.PLEX_LIBRARIES
                  /\ env.PLEXCACHE_LIBRARIES_ONLY # {}
                        => c.library \in env.PLEXCACHE_LIBRARIES_ONLY

(***************************************************************************)
(* The nextUnwatched rule of the snapshot continue-watching query.         *)
(***************************************************************************)
\* The account has no playback position in the item.
NoOffsetFor(d, mi, account) ==
    \A s \in d.metadata_item_settings :
        (s.guid = mi.guid /\ s.account_id = account) => s.view_offset = 0

\* The rule as the specification words it: no view record of the account for
\* the episode, a view record of the account for an episode of the season,
\* and the least index among the season's episodes the account has no view
\* record for.
IsNextUnwatched(d, ep, account) ==
    /\ ep.metadata_type = Episode
    /\ ~\E v \in d.metadata_item_views :
          v.guid = ep.guid /\ v.account_id = account
    /\ \E sib \in d.metadata_items, v \in d.metadata_item_views :
          /\ sib.metadata_type = Episode
          /\ sib.parent_id = ep.parent_id
          /\ v.guid = sib.guid /\ v.account_id = account
    /\ \A other \in d.metadata_items :
          ( /\ other.metadata_type = Episode
            /\ other.parent_id = ep.parent_id
            /\ ~\E v \in d.metadata_item_views :
                  v.guid = other.guid /\ v.account_id = account )
          => ep.index <= other.index

ItemById(d, id) == CHOOSE mi \in d.metadata_items : mi.id = id

\* C13: while the account loop runs, for every account and every answer the
\* continue-watching query can give, a returned episode in which the account has no playback position
\* is next-unwatched for the account; when the answer is shorter than the
\* per-account cap, the file of every next-unwatched episode without
\* playback position is in it; and the answer holds at most one such episode
\* per season.
C13_NextUnwatchedRule ==
    (backend = "sqlite" /\ ppc = "accounts")
        => \A a \in db.accounts :
              \A fetched \in OnDeckQuery(db, a, env.PLEXCACHE_ONDECK_COUNT) :
                  LET eps == {ItemById(db, fetched[i].metadata_id) :
                                 i \in 1..Len(fetched)}
                      plain == {ep \in eps : /\ ep.metadata_type = Episode
                                             /\ NoOffsetFor(db, ep, a)}
                  IN  /\ \A ep \in plain : IsNextUnwatched(db, ep, a)
                      /\ Len(fetched) < env.PLEXCACHE_ONDECK_COUNT
                            => \A p \in JoinedParts(db) :
                                  ( /\ IsNextUnwatched(db, ItemOf(db, p), a)
                                    /\ NoOffsetFor(db, ItemOf(db, p), a) )
                                  => \E i \in 1..Len(fetched) :
                                        fetched[i].file_path = p.file
                      /\ \A e1, e2 \in plain :
                            e1.parent_id = e2.parent_id => e1 = e2

\* A run has printed the file of the first of two episodes the account has
\* not watched in a season it has started.
C13_Witness ==
    /\ backend = "sqlite"
    /\ PromoteRan
    /\ PromoteReadOnce
    /\ env.pfault = "none"
    /\ \E a \in PromoteDb.accounts, p \in JoinedParts(PromoteDb), later \in PromoteDb.metadata_items :
          /\ IsNextUnwatched(PromoteDb, ItemOf(PromoteDb, p), a)
          /\ NoOffsetFor(PromoteDb, ItemOf(PromoteDb, p), a)
          /\ later.metadata_type = Episode
          /\ later.parent_id = ItemOf(PromoteDb, p).parent_id
          /\ later.index > ItemOf(PromoteDb, p).index
          /\ ~ViewedBy(PromoteDb, later.guid, a)
          /\ \E i \in 1..Len(results) :
                results[i].metadata_id = ItemOf(PromoteDb, p).id
          /\ PromoteLine(p.file, env) \in Range(pout)


\* Both selectors have completed a second run under the configuration of
\* the first.
Reran == hist.run = 2 /\ ppc = "done" /\ dpc = "done"

\* C14: running a selector twice on the same snapshot (or server state) with
\* the same configuration prints the same lines in the same order and ends
\* with the same exit status, for promotion and for demotion.
C14_RerunSameOutput ==
    (Reran /\ SnapshotUnchanged) =>
        /\ pout = hist.pout /\ pexit = hist.pexit
        /\ dout = hist.dout /\ dexit = hist.dexit


\* C15: live backend, skip-if-playing enabled: the cache-tier path of a file
\* that a session is playing at the time of the run is not printed by the
\* demotion run, whatever the path map and whether or not the session
\* listing succeeds.
C15_PlayingFileNotDemoted ==
    (DemoteRan /\ backend = "live" /\ env.PLEXCACHE_SKIP_IF_PLAYING)
        => \A f \in plex.playing :
              LET line == DemoteLineLive(f, env, fs)
              IN  line # NoPath => line \notin Range(dout)


(***************************************************************************)
(* Union across accounts.                                                  *)
(***************************************************************************)
\* The items some account has a playback position in.
InProgressItems(d) ==
    {mi \in d.metadata_items :
        \E s \in d.metadata_item_settings :
            s.guid = mi.guid /\ s.account_id > 0 /\ s.view_offset > 0}

\* No account has as many continue-watching files as the per-account cap,
\* the accumulated results are below the stop limit and fewer lines than
\* PLEXCACHE_MAX_ITEMS were printed.
CapsNotReachedSqlite ==
    /\ \A a \in PromoteDb.accounts :
          Cardinality({r.file_path : r \in OnDeckJoin(PromoteDb, a)})
              < env.PLEXCACHE_ONDECK_COUNT
    /\ Len(results) < env.PLEXCACHE_ONDECK_COUNT * StopFactor
    /\ Len(pout) < env.PLEXCACHE_MAX_ITEMS

CapsNotReachedLive ==
    /\ Len(plex.ondeck) < env.PLEXCACHE_ONDECK_COUNT
    /\ Len(pout) < env.PLEXCACHE_MAX_ITEMS

\* The derivation as specified: the candidates in the order (a) the path
\* itself if under the cache root, (b) a leading array root rewritten to the
\* cache root, (c) a leading /mnt/user rewritten to the cache root; the first
\* one that exists as a file, or none.
SpecifiedCachePath(host_path, array_root, cache_root, files) ==
    LET ar == RStripSlash(array_root)
        cr == RStripSlash(cache_root)
        a == IF StartsWith(host_path, cr \o Slash) THEN <<host_path>> ELSE <<>>
        b == IF StartsWith(host_path, ar \o Slash)
             THEN <<cr \o SubSeq(host_path, Len(ar) + 1, Len(host_path))>>
             ELSE <<>>
        c == IF StartsWith(host_path, MntUserSlash)
             THEN <<cr \o SubSeq(host_path, Len(MntUser) + 1, Len(host_path))>>
             ELSE <<>>
        candidates == a \o b \o c
        existing == {i \in 1..Len(candidates) : candidates[i] \in files}
    IN  IF existing = {} THEN NoPath ELSE candidates[Min(existing)]

\* C17: for every host path, array root and cache root, both demotion
\* selectors derive the same cache-tier path for a file, and it is the
\* specified one: the first existing candidate in the order (a), (b), (c),
\* or none.
C17_SameCachePath ==
    (backend = "cachepath" /\ tpc = "done")
        => /\ tmapped = tnorm[1]
           /\ tnorm[1] = SpecifiedCachePath(tpath, env.PLEXCACHE_ARRAY_ROOT,
                                            env.PLEXCACHE_CACHE_ROOT, fs)


(***************************************************************************)
(* Account iteration of the snapshot continue-watching resolver.           *)
(***************************************************************************)
\* The number of files the continue-watching query finds for the account.
ContinueWatchingCount(d, account) ==
    Cardinality({r.file_path : r \in OnDeckJoin(d, account)})

\* Every account once, an account with a later last view before one with an
\* earlier last view, the accounts without a view record at the end.
MostRecentlyActiveFirst(d, order) ==
    /\ Range(order) = {a \in d.accounts : a > 0}
    /\ Len(order) = Cardinality(Range(order))
    /\ \A i, j \in 1..Len(order) :
          i < j =>
              \/ LastView(d, order[j]) = NullTime
              \/ /\ LastView(d, order[i]) # NullTime
                 /\ LastView(d, order[i]) >= LastView(d, order[j])

\* One step of the resolver's loop, as the claim describes it; a step that
\* changes the database is the media server's, not the resolver's.
AccountIterationStep ==
    /\ (ppc = "idle" /\ ppc' = "accounts")
          => MostRecentlyActiveFirst(db, accounts')
    /\ (ppc = "accounts" /\ accounts # <<>> /\ db' = db)
          => LET cap == env.PLEXCACHE_ONDECK_COUNT
                 added == Len(results') - Len(results)
                 found == ContinueWatchingCount(db, Head(accounts))
             IN  IF Len(results) >= cap * StopFactor
                 THEN \* the limit is reached: no further account is queried
                      /\ ppc' = "print"
                      /\ results' = results /\ accounts' = accounts
                 ELSE \* the account is queried to the end, whatever the
                      \* results then amount to
                      ppc' = "accounts"
                          => /\ accounts' = Tail(accounts)
                             /\ SubSeq(results', 1, Len(results)) = results
                             /\ added <= cap
                             /\ (env.PLEX_LIBRARIES = {}
                                 /\ env.PLEXCACHE_LIBRARIES_ONLY = {})
                                   => added = Min({cap, found})

\* C18: the snapshot resolver queries the accounts most recently active
\* first (accounts without a view record last); an account adds at most the
\* per-account cap of entries; the stop test is made between accounts only:
\* when the accumulated count has reached the limit no further account is
\* queried, and an account that is queried adds its whole capped result.
C18_AccountIteration == [][backend = "sqlite" => AccountIterationStep]_vars

\* The loop stopped between two accounts, after accounts had contributed:
\* under a cap of two entries the listing put the account without a view
\* record last, an account with one file added one entry and the others two,
\* the last account queried took the count from below the limit to above it
\* and added its whole result, and the accounts after it were not queried.
C18_Witness ==
    /\ backend = "sqlite"
    /\ PromoteRan
    /\ PromoteReadOnce
    /\ env.pfault = "none"
    /\ env.PLEXCACHE_ONDECK_COUNT = 2
    /\ accounts # <<>>
    /\ hist.queried = Len(hist.order) - Len(accounts)
    /\ hist.queried > 1
    /\ Len(results) > env.PLEXCACHE_ONDECK_COUNT * StopFactor
    /\ \E a \in PromoteDb.accounts : ContinueWatchingCount(PromoteDb, a) = 1
    /\ LastView(PromoteDb, accounts[Len(accounts)]) = NullTime
    /\ \E a \in PromoteDb.accounts : LastView(PromoteDb, a) # NullTime


(***************************************************************************)
(* Snapshot demotion without a view record.                                *)
(***************************************************************************)
\* No account has a view record or a playback state of the item.
Untouched(d, mi) ==
    /\ \A v \in d.metadata_item_views : v.guid # mi.guid
    /\ \A s \in d.metadata_item_settings : s.guid # mi.guid

\* Some account has a view record or a playback state of an episode of the
\* item's season.
InStartedSeason(d, mi) ==
    /\ mi.metadata_type = Episode
    /\ \E ep \in d.metadata_items :
          /\ ep.metadata_type = Episode
          /\ ep.parent_id = mi.parent_id
          /\ ~Untouched(d, ep)

\* C19: snapshot demotion, the query succeeding and the library filters
\* passing: a file that exists on the cache tier, all of whose backing items
\* have no view record and no playback state for any account, and none of
\* which is a movie added in the last 30 days or an episode of a season some
\* account has started, is printed; no view record is needed.
C19_DemotedWithoutView ==
    (DemoteRan /\ backend = "sqlite" /\ env.dfault = "none")
        => \A p \in JoinedParts(DemoteDb) :
              (/\ DemoteLineSqlite(p.file, env) # NoPath
               /\ DemoteLineSqlite(p.file, env) \in fs
               /\ \A mi \in ItemsBackedBy(DemoteDb, p.file) :
                     /\ PassesLibraryFilters(LibraryNameOf(DemoteDb, mi),
                            env.PLEX_LIBRARIES, env.PLEXCACHE_LIBRARIES_ONLY)
                     /\ Untouched(DemoteDb, mi)
                     /\ ~NewlyAddedMovie(mi, now)
                     /\ ~InStartedSeason(DemoteDb, mi))
              => DemoteLineSqlite(p.file, env) \in Range(dout)

\* A demotion run on a snapshot with no view record and no playback state at
\* all has printed the cache copy of the two older movies' file.
C19_Witness ==
    /\ backend = "sqlite"
    /\ DemoteRan
    /\ env.dfault = "none"
    /\ DemoteDb.metadata_item_views = {}
    /\ DemoteDb.metadata_item_settings = {}
    /\ \E p \in JoinedParts(DemoteDb) :
          /\ ItemOf(DemoteDb, p).metadata_type = Movie
          /\ DemoteLineSqlite(p.file, env) \in Range(dout)

====
